---- MODULE Spec2Model ----
(***************************************************************************)
(* State machine of the dice-drafting engine, src/src/game.rs:             *)
(* GameState::init, GameState::take_turn and the helpers they call.        *)
(* Indices are 0-based as in the source; Vec<T> is a TLA+ sequence, so     *)
(* element i of a Vec is element i + 1 of the sequence.                    *)
(***************************************************************************)
EXTENDS Integers, Sequences, FiniteSets

VARIABLES
    players,            \* GameState.players: Vec<Player>
    start_player_idx,   \* GameState.start_player_idx
    curr_player_idx,    \* GameState.curr_player_idx
    phase,              \* GameState.phase
    dice_bag,           \* GameState.dice_bag: Vec<Color>
    draft_pool,         \* GameState.draft_pool: Vec<Dice>
    round_track,        \* GameState.round_track: Vec<Dice>
    tools,              \* GameState.tools
    objectives,         \* GameState.objectives
    rng,                \* which outcome the ambient random generator produces
    result,             \* what the last take_turn call returned
    called,             \* the last call made: init(num_players) or take_turn
    log,                \* seats of the successful actions since the phase's pool was drawn
    api                 \* StainedAPI around the GameState; NoApi where the game is driven directly

vars == <<players, start_player_idx, curr_player_idx, phase, dice_bag,
          draft_pool, round_track, tools, objectives, rng, result, called,
          log, api>>

\* The GameState proper: every field of the struct.
game == <<players, start_player_idx, curr_player_idx, phase, dice_bag,
          draft_pool, round_track, tools, objectives>>

----------------------------------------------------------------------------
\* Program constants (game.rs:6-13).
NUM_ROUNDS == 10
NUM_OBJECTIVES == 3
NUM_TOOLS == 3
MAX_PLAYERS == 4
NUM_COLORS == 5
DICE_PER_COLOR == ((2 * MAX_PLAYERS + 1) * NUM_ROUNDS) \div NUM_COLORS
BOARD_ROWS == 4
BOARD_COLS == 5

\* Bounds of the exploration.
NumSeeds == 2        \* outcomes of the random generator that are explored
MaxNumPlayers == 4   \* init is called with num_players in 0..MaxNumPlayers
MaxIdx == 5          \* callers select template idx in 0..MaxIdx
Lookahead == 1       \* callers aim at one of the first Lookahead empty cells
MaxAgentPicks == 1   \* an API agent picks one of the first MaxAgentPicks actions
MaxToolCost == 2     \* in_wrong_phase is applied to tools of cost 1..MaxToolCost

Min(a, b) == IF a < b THEN a ELSE b

ALL_COLORS == <<"Red", "Yellow", "Green", "Blue", "Purple">>

\* Option<Dice>::None and Option<(usize, usize)>::None
NoDie == [color |-> "None", face |-> 0]
NoCoords == <<>>

Dice(c, f) == [color |-> c, face |-> f]

\* enum Slot
SlotAny == [kind |-> "Any", color |-> "None", face |-> 0]
SlotColor(c) == [kind |-> "Color", color |-> c, face |-> 0]
SlotFace(f) == [kind |-> "Face", color |-> "None", face |-> f]

RED == SlotColor("Red")
YEL == SlotColor("Yellow")
GRN == SlotColor("Green")
BLU == SlotColor("Blue")
PPL == SlotColor("Purple")
DF1 == SlotFace(1)
DF2 == SlotFace(2)
DF3 == SlotFace(3)
DF4 == SlotFace(4)
DF5 == SlotFace(5)
DF6 == SlotFace(6)
ANY == SlotAny

BoardTemplate(s, v) == [slots |-> s, value |-> v]

\* A BoardTemplate value held by a player is written as its place in the
\* catalog, <<pair, which>>: players only ever hold clones of catalog entries.

\* The catalog: four pairs of templates; slots[i + 1][j + 1] is slots[i][j].
ALL_BOARD_TEMPLATES ==
    << << BoardTemplate(<< <<BLU, DF6, ANY, ANY, YEL>>,
                           <<ANY, DF3, BLU, ANY, ANY>>,
                           <<ANY, DF5, DF6, DF2, ANY>>,
                           <<ANY, DF4, ANY, DF1, GRN>> >>, 3),
          BoardTemplate(<< <<ANY, ANY, DF6, ANY, ANY>>,
                           <<ANY, DF5, BLU, DF4, ANY>>,
                           <<DF3, GRN, YEL, PPL, DF2>>,
                           <<DF1, DF4, RED, DF5, DF3>> >>, 5) >>,
       << BoardTemplate(<< <<ANY, DF4, ANY, YEL, DF6>>,
                           <<RED, ANY, DF2, ANY, ANY>>,
                           <<ANY, ANY, RED, PPL, DF1>>,
                           <<BLU, YEL, ANY, ANY, ANY>> >>, 3),
          BoardTemplate(<< <<ANY, ANY, ANY, RED, DF5>>,
                           <<ANY, ANY, PPL, DF4, BLU>>,
                           <<ANY, BLU, DF3, YEL, DF6>>,
                           <<YEL, DF2, GRN, DF1, RED>> >>, 5) >>,
       << BoardTemplate(<< <<ANY, ANY, RED, DF5, ANY>>,
                           <<PPL, DF4, ANY, GRN, DF3>>,
                           <<DF6, ANY, ANY, BLU, ANY>>,
                           <<ANY, YEL, DF2, ANY, ANY>> >>, 3),
          BoardTemplate(<< <<ANY, BLU, RED, ANY, ANY>>,
                           <<ANY, DF4, DF5, ANY, BLU>>,
                           <<BLU, DF2, ANY, RED, DF5>>,
                           <<DF6, RED, DF3, DF1, ANY>> >>, 5) >>,
       << BoardTemplate(<< <<ANY, BLU, DF2, ANY, YEL>>,
                           <<ANY, DF4, ANY, RED, ANY>>,
                           <<ANY, ANY, DF5, YEL, ANY>>,
                           <<GRN, DF3, ANY, ANY, PPL>> >>, 3),
          BoardTemplate(<< <<DF6, PPL, ANY, ANY, DF5>>,
                           <<DF5, ANY, PPL, ANY, ANY>>,
                           <<RED, DF6, ANY, PPL, ANY>>,
                           <<YEL, RED, DF5, DF4, DF3>> >>, 5) >> >>

TemplateRefs ==
    [p \in 1..Len(ALL_BOARD_TEMPLATES) |->
        [k \in 1..Len(ALL_BOARD_TEMPLATES[p]) |-> <<p, k>>]]

TemplateOf(ref) == ALL_BOARD_TEMPLATES[ref[1]][ref[2]]

ALL_TOOL_TYPES ==
    <<"BumpDraftedDie", "FlipDraftedDie", "RerollDraftedDie",
      "SwapDraftedDieWithRoundTrack", "SwapDraftedDieWithBag",
      "RerollAllDiceInPool", "MoveDieIgnoringColor", "MoveDieIgnoringValue",
      "MoveExactlyTwoDice", "MoveUpToTwoDiceMatchingColor", "DraftTwoDice",
      "PlaceIgnoringAdjacency">>

ALL_OBJECTIVES ==
    << [kind |-> "ColumnNumbers", n |-> 4], [kind |-> "RowNumbers", n |-> 5],
       [kind |-> "Numbers", n |-> 5], [kind |-> "ColumnColors", n |-> 5],
       [kind |-> "RowColors", n |-> 6], [kind |-> "Colors", n |-> 4],
       [kind |-> "Pair12", n |-> 2], [kind |-> "Pair34", n |-> 2],
       [kind |-> "Pair56", n |-> 2], [kind |-> "ColorDiagonals", n |-> 1] >>

----------------------------------------------------------------------------
\* Outcomes of the random generator.  rand::thread_rng can produce any
\* permutation and any face; the exploration follows NumSeeds of them, and
\* the value of rng says which one.

\* dice_bag.shuffle: the colour at position pos (1..90) of the shuffled bag.
\* Positions 1..40 cycle through the colours (8 dice each); positions 41..90
\* are ten runs of five dice of one colour (10 dice each): 18 per colour.
ShuffledColor(seed, pos) ==
    IF pos <= 40
    THEN ALL_COLORS[((pos - 1) % NUM_COLORS) + 1]
    ELSE ALL_COLORS[((((pos - 41) \div 5) + seed) % NUM_COLORS) + 1]

ShuffledBag(seed) ==
    [pos \in 1..(DICE_PER_COLOR * 5) |-> ShuffledColor(seed, pos)]

\* roll_die: the face rolled for the die drawn from position pos of the bag.
\* The five dice of a round roll the same face, except those of the last
\* round (positions 41..45), which roll five different faces.
RolledFace(seed, pos) ==
    IF pos <= 45
    THEN ((pos + seed) % 6) + 1
    ELSE ((((pos - 1) \div 5) + 2 * seed) % 6) + 1

\* The random order in which choose_multiple visits a slice of length len.
RandomOrder(seed, len, stride) ==
    [k \in 1..len |-> ((seed + stride * (k - 1)) % len) + 1]

\* SliceRandom::choose_multiple: amount elements in a random order, all of
\* them when amount exceeds the length of the slice.
ChooseMultiple(slice, amount, order) ==
    [k \in 1..Min(amount, Len(slice)) |-> slice[order[k]]]

\* slice.chunks(2)
Chunks2(s) ==
    [k \in 1..((Len(s) + 1) \div 2) |-> SubSeq(s, 2 * k - 1, Min(2 * k, Len(s)))]

RECURSIVE Flatten(_)
\* iter().flat_map(|x| x.iter().cloned()).collect()
Flatten(ss) == IF ss = <<>> THEN <<>> ELSE Head(ss) \o Flatten(Tail(ss))

\* impl Default for BoardCell
BoardCellDefault == [slot |-> SlotAny, die |-> NoDie]

EmptyBoard == [i \in 1..BOARD_ROWS |-> [j \in 1..BOARD_COLS |-> BoardCellDefault]]

\* The players init builds: the secrets zipped with the chunks of templates.
InitPlayers(num_players, seed) ==
    LET player_templates ==
            ChooseMultiple(TemplateRefs, num_players * 2,
                           RandomOrder(seed, Len(ALL_BOARD_TEMPLATES), 1))
        secrets ==
            ChooseMultiple(ALL_COLORS, num_players,
                           RandomOrder(seed, NUM_COLORS, 2))
        chunks == Chunks2(player_templates)
    IN  [k \in 1..Min(Len(secrets), Len(chunks)) |->
            [tokens |-> 0,
             board |-> EmptyBoard,
             secret |-> secrets[k],
             templates |-> Flatten(chunks[k])]]

InitTools(seed) ==
    LET types == ChooseMultiple(ALL_TOOL_TYPES, NUM_TOOLS,
                                RandomOrder(seed, Len(ALL_TOOL_TYPES), 5))
    IN  [k \in 1..Len(types) |-> [tool_type |-> types[k], cost |-> 1]]

InitObjectives(seed) ==
    ChooseMultiple(ALL_OBJECTIVES, NUM_OBJECTIVES,
                   RandomOrder(seed, Len(ALL_OBJECTIVES), 3))

\* No StainedAPI holds the GameState.
NoApi == [pc |-> "none"]

\* What take_turn returned: Ok(over), Err(msg), or the call panicked.
NoResult == [kind |-> "none", over |-> FALSE, msg |-> ""]
Ok(over) == [kind |-> "ok", over |-> over, msg |-> ""]
Err(msg) == [kind |-> "err", over |-> FALSE, msg |-> msg]
Panic(msg) == [kind |-> "panic", over |-> FALSE, msg |-> msg]

\* The calls a state can be the result of.
InitCall(num_players) == [op |-> "init", num_players |-> num_players]
TakeTurnCall == [op |-> "take_turn", num_players |-> 0]

\* The error init returns (game.rs:29-31), "" when it builds a state.
init_err(num_players) ==
    IF ~(num_players \in 2..4) THEN "Invalid number of players" ELSE ""

\* GameState::init, for the calls that return Ok.
GameInit ==
    \E num_players \in 0..MaxNumPlayers, seed \in 1..NumSeeds :
        /\ init_err(num_players) = ""
        /\ called = InitCall(num_players)
        /\ \E start \in 0..(num_players - 1) :
            /\ start_player_idx = start
            /\ curr_player_idx = start
        /\ players = InitPlayers(num_players, seed)
        /\ phase = "SelectTemplate"
        /\ dice_bag = ShuffledBag(seed)
        /\ draft_pool = <<>>
        /\ round_track = <<>>
        /\ tools = InitTools(seed)
        /\ objectives = InitObjectives(seed)
        /\ rng = seed
        /\ result = NoResult
        /\ log = <<>>

\* A game built by init and driven by calls of take_turn.
Init == GameInit /\ api = NoApi

----------------------------------------------------------------------------
\* Helpers of GameState.

next_idx(idx) == (idx + 1) % Len(players)

prev_idx(idx) == (idx + Len(players) - 1) % Len(players)

\* Mutant: the pool holds two dice per player and no extra die.
pool_size_without_extra_die == 2 * Len(players)

pool_size == 2 * Len(players) + 1

\* Mutant: the game is finished one round late.
is_finished_one_round_late(track, pool) ==
    Len(track) > NUM_ROUNDS /\ pool = <<>>

is_finished(track, pool) == Len(track) >= NUM_ROUNDS /\ pool = <<>>

\* Vec::remove(idx): the vector without its element idx.
RemoveAt(s, idx) == SubSeq(s, 1, idx) \o SubSeq(s, idx + 2, Len(s))

\* Mutant: the slots of the template are laid over the board and the
\* tokens are left as they were.
select_template_keeps_tokens(player, idx) ==
    IF ~(idx \in 0..(Len(player.templates) - 1))
    THEN [err |-> "Invalid template index", player |-> player]
    ELSE LET template == TemplateOf(player.templates[idx + 1])
         IN  [err |-> "",
              player |->
                [player EXCEPT
                    !.board = [i \in 1..BOARD_ROWS |-> [j \in 1..BOARD_COLS |->
                                [slot |-> template.slots[i][j],
                                 die |-> player.board[i][j].die]]]]]

\* Player::select_template: the error, or the player with the template's
\* value as tokens and its slots laid over the board.
select_template(player, idx) ==
    IF ~(idx \in 0..(Len(player.templates) - 1))
    THEN [err |-> "Invalid template index", player |-> player]
    ELSE LET template == TemplateOf(player.templates[idx + 1])
         IN  [err |-> "",
              player |->
                [player EXCEPT
                    !.tokens = template.value,
                    !.board = [i \in 1..BOARD_ROWS |-> [j \in 1..BOARD_COLS |->
                                [slot |-> template.slots[i][j],
                                 die |-> player.board[i][j].die]]]]]

\* Mutant: place_die without the slot check.
place_die_err_ignores_slot(player, coords, die) ==
    IF ~(coords[1] \in 0..(BOARD_ROWS - 1)) \/ ~(coords[2] \in 0..(BOARD_COLS - 1))
    THEN "Invalid coordinates"
    ELSE IF player.board[coords[1] + 1][coords[2] + 1].die # NoDie
    THEN "Cell is already occupied"
    ELSE ""

\* Player::place_die, its checks (game.rs:191-206): the error it returns,
\* "" when it accepts the die.
place_die_err(player, coords, die) ==
    IF ~(coords[1] \in 0..(BOARD_ROWS - 1)) \/ ~(coords[2] \in 0..(BOARD_COLS - 1))
    THEN "Invalid coordinates"
    ELSE LET cell == player.board[coords[1] + 1][coords[2] + 1]
         IN  IF cell.die # NoDie
             THEN "Cell is already occupied"
             ELSE IF cell.slot.kind = "Color" /\ cell.slot.color # die.color
             THEN "Die color does not match slot"
             ELSE IF cell.slot.kind = "Face" /\ cell.slot.face # die.face
             THEN "Die face does not match slot"
             ELSE ""

\* Mutant: place_die stores the die on an occupied cell too.
place_die_overwrites(player, coords, die) ==
    LET err == place_die_err(player, coords, die)
    IN  IF err # "" /\ err # "Cell is already occupied"
        THEN [err |-> err, player |-> player]
        ELSE [err |-> "",
              player |-> [player EXCEPT
                  !.board[coords[1] + 1][coords[2] + 1].die = die]]

\* Player::place_die: the error, or the player with the die in the cell
\* (game.rs:208).
place_die(player, coords, die) ==
    LET err == place_die_err(player, coords, die)
    IN  IF err # ""
        THEN [err |-> err, player |-> player]
        ELSE [err |-> "",
              player |-> [player EXCEPT
                  !.board[coords[1] + 1][coords[2] + 1].die = die]]

\* GameState::start_round on a bag: the dice split off its tail, rolled.
\* at < 0 is the usize underflow of dice_bag.len() - pool_size().
start_round(bag) ==
    LET at == Len(bag) - pool_size
    IN  IF at < 0
        THEN [panic |-> TRUE, bag |-> bag, pool |-> <<>>]
        ELSE [panic |-> FALSE,
              bag |-> SubSeq(bag, 1, at),
              pool |-> [k \in 1..pool_size |->
                          Dice(bag[at + k], RolledFace(rng, at + k))]]

\* Mutant: the wrap onto start_player_idx switches the phase and leaves the
\* turn pointer on start_player_idx.
first_draft_advance_without_reversal(idx) ==
    LET nxt == next_idx(idx)
    IN  IF nxt = start_player_idx
        THEN [curr |-> nxt, phase |-> "SecondDraft"]
        ELSE [curr |-> nxt, phase |-> "FirstDraft"]

\* The seat that acts after a successful FirstDraft action of seat idx, and
\* the phase it acts in (game.rs:105-109).
first_draft_advance(idx) ==
    LET nxt == next_idx(idx)
    IN  IF nxt = start_player_idx
        THEN [curr |-> prev_idx(nxt), phase |-> "SecondDraft"]
        ELSE [curr |-> nxt, phase |-> "FirstDraft"]

\* Where a rejected placement leaves the draft pool: the die take_turn
\* removed before it called place_die is not put back (game.rs:103-104).
pool_after_rejection(pool, idx) == RemoveAt(pool, idx)

----------------------------------------------------------------------------
\* What callers submit: TurnAction {idx, coords}.

\* Row-major number of a cell and back.
CellNo(coords) == coords[1] * BOARD_COLS + coords[2]
CellAt(k) == <<k \div BOARD_COLS, k % BOARD_COLS>>

InRangeCoords == (0..(BOARD_ROWS - 1)) \X (0..(BOARD_COLS - 1))

HasDie(board, coords) == board[coords[1] + 1][coords[2] + 1].die # NoDie

EmptyCells(board) == {c \in InRangeCoords : ~HasDie(board, c)}
OccupiedCells(board) == {c \in InRangeCoords : HasDie(board, c)}

\* The first n cells of a set of cells, in row-major order.
RECURSIVE FirstCells(_, _)
FirstCells(cells, n) ==
    IF n = 0 \/ cells = {}
    THEN {}
    ELSE LET c == CHOOSE c \in cells : \A d \in cells : CellNo(c) <= CellNo(d)
         IN  {c} \cup FirstCells(cells \ {c}, n - 1)

\* The empty cells of the player's board on which place_die accepts the die.
ValidCells(player, die) ==
    {c \in EmptyCells(player.board) : place_die_err(player, c, die) = ""}

\* The destinations a caller tries for the die at idx: the first cell that
\* accepts the die (what an agent that enumerates the valid drafts picks),
\* the first Lookahead empty cells whether they accept it or not, the first
\* occupied cell, one row and one column outside the grid, or none.
CallerCoords(player, pool, idx) ==
    (IF idx < Len(pool)
     THEN FirstCells(ValidCells(player, pool[idx + 1]), 1)
     ELSE {})
        \cup FirstCells(EmptyCells(player.board), Lookahead)
        \cup FirstCells(OccupiedCells(player.board), 1)
        \cup {<<BOARD_ROWS, 0>>, <<0, BOARD_COLS>>}
        \cup {NoCoords}

\* The pool indices a caller drafts: the first die, the last die, and one
\* past the end of the pool.
CallerDraftIdx(pool) == {0, Len(pool)} \cup {i \in {Len(pool) - 1} : i >= 0}

TurnAction(idx, coords) == [idx |-> idx, coords |-> coords]

----------------------------------------------------------------------------
\* GameState::take_turn.  Each arm yields the fields of the GameState as the
\* call leaves them and what the call returned; a panicking call leaves the
\* writes made before the panic.

Now ==
    [players |-> players, start |-> start_player_idx, curr |-> curr_player_idx,
     phase |-> phase, bag |-> dice_bag, pool |-> draft_pool,
     track |-> round_track, tools |-> tools, result |-> result]

\* Mutant: every successful call reports that the game goes on.
Returned_never_over(s) == [s EXCEPT !.result = Ok(FALSE)]

\* Ok(matches!(self.phase, TurnPhase::GameOver)) (game.rs:130)
Returned(s) == [s EXCEPT !.result = Ok(s.phase = "GameOver")]

\* Mutant: start_round draws the pool and leaves the phase as it was.
StartRound_keeps_phase(s) ==
    LET sr == start_round(s.bag)
    IN  IF sr.panic
        THEN [s EXCEPT !.result = Panic("attempt to subtract with overflow")]
        ELSE Returned([s EXCEPT !.bag = sr.bag, !.pool = sr.pool])

\* start_round applied to a state (game.rs:132-140).
StartRound(s) ==
    LET sr == start_round(s.bag)
    IN  IF sr.panic
        THEN [s EXCEPT !.result = Panic("attempt to subtract with overflow")]
        ELSE Returned([s EXCEPT !.bag = sr.bag, !.pool = sr.pool,
                                !.phase = "FirstDraft"])

\* TurnPhase::SelectTemplate (game.rs:91-97)
select_template_arm(action) ==
    IF curr_player_idx >= Len(players)
    THEN [Now EXCEPT !.result = Panic("index out of bounds")]
    ELSE LET sel == select_template(players[curr_player_idx + 1], action.idx)
         IN  IF sel.err # ""
             THEN [Now EXCEPT !.result = Err(sel.err)]
             ELSE LET s1 == [Now EXCEPT
                                !.players[curr_player_idx + 1] = sel.player,
                                !.curr = next_idx(curr_player_idx)]
                  IN  IF s1.curr = start_player_idx
                      THEN StartRound(s1)
                      ELSE Returned(s1)

\* finish_round and what follows it in the SecondDraft arm (game.rs:120-125,
\* 141-145), on the state s1 the draft left.
finish_round(s1) ==
    IF Len(s1.pool) # 1
    THEN [s1 EXCEPT !.result = Panic("assertion failed: draft_pool.len() == 1")]
    ELSE LET s2 == [s1 EXCEPT
                       !.track = Append(s1.track, s1.pool[Len(s1.pool)]),
                       !.pool = SubSeq(s1.pool, 1, Len(s1.pool) - 1),
                       !.start = next_idx(s1.start)]
         IN  IF is_finished(s2.track, s2.pool)
             THEN Returned([s2 EXCEPT !.phase = "GameOver"])
             ELSE StartRound(s2)

\* The seat that acts after a successful SecondDraft action of seat idx
\* (game.rs:118).
second_draft_advance(idx) == prev_idx(idx)

\* The part the two draft arms share (game.rs:99-104, 112-117): the error
\* or panic the call ends with, or the state after the die is placed.
draft_and_place(action) ==
    IF action.coords = NoCoords
    THEN [Now EXCEPT !.result = Err("Missing destination coordinates")]
    ELSE IF action.idx >= Len(draft_pool)
    THEN [Now EXCEPT !.result = Panic("removal index out of bounds")]
    ELSE LET die == draft_pool[action.idx + 1]
             placed == place_die(players[curr_player_idx + 1], action.coords, die)
         IN  IF placed.err # ""
             THEN [Now EXCEPT !.pool = pool_after_rejection(draft_pool, action.idx),
                              !.result = Err(placed.err)]
             ELSE [Now EXCEPT !.pool = RemoveAt(draft_pool, action.idx),
                              !.players[curr_player_idx + 1] = placed.player,
                              !.result = Ok(FALSE)]

\* Mutant: the turn advances before the result of place_die is looked at.
first_draft_arm_advances_on_error(action) ==
    LET s1 == draft_and_place(action)
        adv == first_draft_advance(curr_player_idx)
    IN  IF s1.result.kind = "panic" \/ action.coords = NoCoords
        THEN s1
        ELSE [s1 EXCEPT !.curr = adv.curr, !.phase = adv.phase]

\* TurnPhase::FirstDraft (game.rs:98-110)
first_draft_arm(action) ==
    LET s1 == draft_and_place(action)
    IN  IF s1.result.kind # "ok"
        THEN s1
        ELSE LET adv == first_draft_advance(curr_player_idx)
             IN  Returned([s1 EXCEPT !.curr = adv.curr, !.phase = adv.phase])

\* TurnPhase::SecondDraft (game.rs:111-127)
second_draft_arm(action) ==
    LET s1 == draft_and_place(action)
    IN  IF s1.result.kind # "ok"
        THEN s1
        ELSE LET s2 == [s1 EXCEPT !.curr = second_draft_advance(curr_player_idx)]
             IN  IF s2.curr = s2.start
                 THEN finish_round(s2)
                 ELSE Returned(s2)

\* Mutant: the GameOver arm reports the game as over instead of failing.
game_over_arm_returns_ok == [Now EXCEPT !.result = Ok(TRUE)]

\* TurnPhase::GameOver (game.rs:128)
game_over_arm == [Now EXCEPT !.result = Err("Game is over")]

\* GameState::take_turn: the arm of the current phase (game.rs:90).
take_turn(action) ==
    CASE phase = "SelectTemplate" -> select_template_arm(action)
      [] phase = "FirstDraft" -> first_draft_arm(action)
      [] phase = "SecondDraft" -> second_draft_arm(action)
      [] phase = "GameOver" -> game_over_arm

\* The log of the round: the seat and phase of every call that returned Ok
\* since the draft pool was last drawn.
LogAfter(s) ==
    IF s.result.kind # "ok"
    THEN log
    ELSE IF s.bag # dice_bag
    THEN <<>>
    ELSE Append(log, <<phase, curr_player_idx>>)

\* The call leaves the GameState in state s.
GameBecomes(s) ==
    /\ players' = s.players
    /\ start_player_idx' = s.start
    /\ curr_player_idx' = s.curr
    /\ phase' = s.phase
    /\ dice_bag' = s.bag
    /\ draft_pool' = s.pool
    /\ round_track' = s.track
    /\ tools' = s.tools
    /\ result' = s.result
    /\ called' = TakeTurnCall
    /\ log' = LogAfter(s)
    /\ UNCHANGED <<objectives, rng>>

\* The call, made on the GameState directly, leaves it in state s.
Becomes(s) == GameBecomes(s) /\ UNCHANGED api

\* A panic ends the program: no call follows it.
Alive == result.kind # "panic"

\* The player the call addresses: self.players[self.curr_player_idx].
Me == players[curr_player_idx + 1]

SelectTemplateTurn ==
    /\ Alive
    /\ phase = "SelectTemplate"
    /\ \E idx \in 0..MaxIdx, coords \in {NoCoords, <<0, 0>>} :
        Becomes(take_turn(TurnAction(idx, coords)))

FirstDraftTurn ==
    /\ Alive
    /\ phase = "FirstDraft"
    /\ \E idx \in CallerDraftIdx(draft_pool) : \E coords \in CallerCoords(Me, draft_pool, idx) :
        Becomes(take_turn(TurnAction(idx, coords)))

SecondDraftTurn ==
    /\ Alive
    /\ phase = "SecondDraft"
    /\ \E idx \in CallerDraftIdx(draft_pool) : \E coords \in CallerCoords(Me, draft_pool, idx) :
        Becomes(take_turn(TurnAction(idx, coords)))

GameOverTurn ==
    /\ Alive
    /\ phase = "GameOver"
    /\ \E idx \in {0, MaxIdx}, coords \in {NoCoords, <<0, 0>>} :
        Becomes(take_turn(TurnAction(idx, coords)))

Next ==
    \/ SelectTemplateTurn
    \/ FirstDraftTurn
    \/ SecondDraftTurn
    \/ GameOverTurn

Spec == Init /\ [][Next]_vars

----------------------------------------------------------------------------
\* Properties.

N == Len(players)

DraftPhases == {"FirstDraft", "SecondDraft"}

\* The dice lying on the boards of all players.
PlacedDice(ps) ==
    Cardinality({<<p, c>> \in (1..Len(ps)) \X InRangeCoords : HasDie(ps[p].board, c)})

TotalDice ==
    Len(dice_bag) + Len(draft_pool) + Len(round_track) + PlacedDice(players)

\* C1: in every reachable state the dice in the bag, in the draft pool, on
\* the round track and on the boards add up to the 90 manufactured dice.
C1_DiceConservation == TotalDice = DICE_PER_COLOR * NUM_COLORS

\* C2: a take_turn call that returns an error leaves every field of the
\* GameState as it was before the call.
C2_AtomicRejection == [][result'.kind = "err" => game' = game]_vars

\* The cells of seat p (0-based) that hold a die after the step and held
\* none, or another die, before it.
NewDice(p) ==
    {c \in InRangeCoords :
        /\ HasDie(players'[p + 1].board, c)
        /\ players'[p + 1].board[c[1] + 1][c[2] + 1].die
              # players[p + 1].board[c[1] + 1][c[2] + 1].die}

\* The slot of a cell admits a die.
SlotAdmits(slot, die) ==
    \/ slot.kind = "Any"
    \/ slot.kind = "Color" /\ slot.color = die.color
    \/ slot.kind = "Face" /\ slot.face = die.face

\* The step placed one die of the pool on a cell of the acting seat that
\* passes the placement check, and touched no other cell.
PlacedLegally ==
    LET new == NewDice(curr_player_idx)
    IN  /\ \A p \in 0..(N - 1) :
            p # curr_player_idx =>
                (players'[p + 1] = players[p + 1] \/ NewDice(p) = {})
        /\ Cardinality(new) = 1
        /\ \A c \in new :
            /\ ~HasDie(Me.board, c)
            /\ \E i \in 1..Len(draft_pool) :
                /\ players'[curr_player_idx + 1].board[c[1] + 1][c[2] + 1].die
                      = draft_pool[i]
                /\ SlotAdmits(Me.board[c[1] + 1][c[2] + 1].slot, draft_pool[i])

\* What C3 asks of one step taken in a draft phase.
C3_Step ==
    phase \in DraftPhases =>
        /\ result'.kind = "ok" => PlacedLegally
        /\ result'.kind = "err" =>
            /\ curr_player_idx' = curr_player_idx
            /\ phase' = phase
            /\ players' = players

\* C3: in FirstDraft and SecondDraft a draft is accepted only when its
\* destination passes the placement check, and a draft that returns an error
\* places nothing and leaves curr_player_idx and phase unchanged.
C3_RejectedDraftKeepsTurn == [][C3_Step]_vars

C3_Witness ==
    /\ phase \in DraftPhases
    /\ result.kind = "err"
    /\ result.msg = "Cell is already occupied"

\* What C4 asks of one step taken in GameOver.
C4_Step ==
    phase = "GameOver" => (result' = Err("Game is over") /\ game' = game)

\* C4: once the phase is GameOver every take_turn call returns the error
\* "Game is over" and changes no field of the GameState.
C4_GameOverTerminal == [][C4_Step]_vars

C4_Witness == phase = "GameOver" /\ result = Err("Game is over")

PhaseChanges ==
    {<<"SelectTemplate", "FirstDraft">>, <<"FirstDraft", "SecondDraft">>,
     <<"SecondDraft", "FirstDraft">>, <<"SecondDraft", "GameOver">>}

\* What C5 asks of one step.
C5_Step ==
    /\ phase' # phase => <<phase, phase'>> \in PhaseChanges
    /\ dice_bag' # dice_bag => phase' = "FirstDraft"

\* C5: the phase changes only SelectTemplate->FirstDraft, FirstDraft->
\* SecondDraft, SecondDraft->FirstDraft and SecondDraft->GameOver (so
\* SelectTemplate is never re-entered), and the step that draws the draft
\* pool of a round always enters FirstDraft.
C5_PhaseOrdering == [][C5_Step]_vars

C5_Witness ==
    /\ phase = "SecondDraft"
    /\ Len(round_track) >= 1
    /\ result.kind = "ok"

\* The step leaves the tokens of seat p (0-based) and the slot of every
\* cell of its board as they were.
KeepsSelection(p) ==
    \/ players'[p + 1] = players[p + 1]
    \/ /\ players'[p + 1].tokens = players[p + 1].tokens
       /\ \A c \in InRangeCoords :
            players'[p + 1].board[c[1] + 1][c[2] + 1].slot
                = players[p + 1].board[c[1] + 1][c[2] + 1].slot

\* The step moves the last n colours of the bag into the draft pool.
Draws(n) ==
    /\ Len(dice_bag) >= n
    /\ dice_bag' = SubSeq(dice_bag, 1, Len(dice_bag) - n)
    /\ Len(draft_pool') = n
    /\ \A k \in 1..n :
        draft_pool'[k].color = dice_bag[Len(dice_bag) - n + k]

\* What C6 asks of one step: log holds the selections made so far.
C6_Step ==
    /\ (phase = "SelectTemplate" /\ result'.kind = "ok") =>
        /\ Len(log) < N
        /\ curr_player_idx = (start_player_idx + Len(log)) % N
        /\ ~KeepsSelection(curr_player_idx)
        /\ \A p \in 0..(N - 1) : p # curr_player_idx => KeepsSelection(p)
        /\ IF Len(log) + 1 = N
           THEN /\ phase' = "FirstDraft"
                /\ Draws(2 * N + 1)
                /\ N = 2 => Len(draft_pool') = 5
           ELSE /\ phase' = "SelectTemplate"
                /\ dice_bag' = dice_bag
                /\ draft_pool' = draft_pool
    /\ (phase # "SelectTemplate" \/ result'.kind # "ok") =>
        \A p \in 0..(N - 1) : KeepsSelection(p)

\* C6: the SelectTemplate phase is N successful selections in seat order
\* start_player_idx, start_player_idx+1, ... (mod N), one per player; the
\* N-th moves 2N+1 dice from the bag into the draft pool and sets phase
\* FirstDraft, and no selection happens in a later phase.
C6_SelectTemplatePhase == [][C6_Step]_vars

C6_Witness ==
    /\ phase = "FirstDraft"
    /\ round_track = <<>>
    /\ result = Ok(FALSE)
    /\ log = <<>>
    /\ Len(draft_pool) = 2 * N + 1
    /\ Len(dice_bag) = DICE_PER_COLOR * NUM_COLORS - (2 * N + 1)
    /\ \A p \in 1..N : players[p].tokens > 0

\* What C7 asks of one step: log holds the drafts made so far in the round.
C7_Step ==
    /\ (phase' = "FirstDraft" /\ dice_bag' # dice_bag) =>
        curr_player_idx' = start_player_idx'
    /\ (phase = "FirstDraft" /\ result'.kind = "ok") =>
        /\ Len(log) < N
        /\ curr_player_idx = (start_player_idx + Len(log)) % N
    /\ (phase = "FirstDraft" /\ phase' = "SecondDraft") => Len(log) + 1 = N

\* C7: in every round FirstDraft starts with curr_player_idx =
\* start_player_idx and the N players make one successful draft each in the
\* order start_player_idx, start_player_idx+1, ... (mod N).
C7_FirstDraftForwardOrder == [][C7_Step]_vars

\* What C8 asks of one step.
C8_Step ==
    (phase = "FirstDraft" /\ result'.kind = "ok") =>
        IF (curr_player_idx + 1) % N = start_player_idx
        THEN /\ phase' = "SecondDraft"
             /\ curr_player_idx' = (start_player_idx + N - 1) % N
             /\ curr_player_idx' = curr_player_idx
        ELSE /\ phase' = "FirstDraft"
             /\ curr_player_idx' = (curr_player_idx + 1) % N

\* C8: a successful FirstDraft action that advances the turn pointer onto
\* start_player_idx switches the phase to SecondDraft and sets
\* curr_player_idx to (start_player_idx + N - 1) mod N, the seat that has
\* just drafted; any other successful FirstDraft action passes the turn to
\* the next seat.
C8_FirstDraftWrap == [][C8_Step]_vars

C8_Witness ==
    /\ phase = "SecondDraft"
    /\ result.kind = "ok"
    /\ log # <<>>
    /\ log[Len(log)] = <<"FirstDraft", curr_player_idx>>
    /\ curr_player_idx = (start_player_idx + N - 1) % N

\* The seats of the entries of a log made in phase ph, in order.
SeatsIn(l, ph) ==
    LET InPhase(e) == e[1] = ph
        es == SelectSeq(l, InPhase)
    IN  [k \in 1..Len(es) |-> es[k][2]]

Reverse(s) == [k \in 1..Len(s) |-> s[Len(s) + 1 - k]]

\* What C9 asks of the step that finishes a round.
C9_Step ==
    Len(round_track') > Len(round_track) =>
        LET drafts == Append(log, <<phase, curr_player_idx>>)
        IN  /\ Len(SeatsIn(drafts, "SecondDraft")) = N
            /\ SeatsIn(drafts, "SecondDraft")
                  = Reverse(SeatsIn(drafts, "FirstDraft"))
            /\ Len(drafts) = 2 * N

\* C9: a round is finished only after every one of the N players, the start
\* player included, has made one successful SecondDraft draft, in the
\* reverse of the FirstDraft order: 2N successful drafts per round.
C9_SecondDraftAllPlayers == [][C9_Step]_vars

\* The step placed a die on the board of the acting seat.
PlacedDie == players' # players

\* What C10 asks of the SecondDraft step that places a die and moves the
\* turn pointer onto start_player_idx.
C10_Step ==
    (phase = "SecondDraft" /\ PlacedDie
            /\ (curr_player_idx + N - 1) % N = start_player_idx) =>
        /\ Len(round_track') = Len(round_track) + 1
        /\ \E i \in 1..Len(draft_pool) :
            round_track'[Len(round_track')] = draft_pool[i]
        /\ start_player_idx' = (start_player_idx + 1) % N
        /\ IF Len(round_track') = NUM_ROUNDS
           THEN phase' = "GameOver" /\ draft_pool' = <<>>
           ELSE phase' = "FirstDraft" /\ Draws(2 * N + 1)

\* C10: when a SecondDraft action that placed its die leaves
\* curr_player_idx equal to start_player_idx, what is left of the draft pool
\* becomes one more entry of round_track, start_player_idx becomes
\* (start_player_idx + 1) mod N, and the phase becomes GameOver when
\* round_track holds NUM_ROUNDS entries, else 2N+1 dice are drawn and the
\* phase is FirstDraft.
C10_RoundFinish == [][C10_Step]_vars

\* The rounds whose draft pool has been drawn from the bag.
RoundsStarted ==
    (DICE_PER_COLOR * NUM_COLORS - Len(dice_bag)) \div (2 * N + 1)

\* The rounds that have been finished: all that were started, except the
\* one being drafted.
RoundsCompleted ==
    IF phase \in DraftPhases THEN RoundsStarted - 1 ELSE RoundsStarted

C11_Inv ==
    /\ Len(round_track) = RoundsCompleted
    /\ Len(round_track) <= NUM_ROUNDS

\* What C11 asks of one step: round_track changes only by the step that
\* finishes a round, which appends one entry.
C11_Step ==
    (round_track' # round_track \/ start_player_idx' # start_player_idx) =>
        /\ phase = "SecondDraft"
        /\ result'.kind = "ok"
        /\ start_player_idx' = (start_player_idx + 1) % N
        /\ Len(round_track') = Len(round_track) + 1
        /\ SubSeq(round_track', 1, Len(round_track)) = round_track

\* C11: in every reachable state round_track.len() is the number of
\* finished rounds and at most NUM_ROUNDS, and it grows by exactly one with
\* every finished round and by nothing else.
C11_RoundTrackLength == [](C11_Inv) /\ [][C11_Step]_vars

C11_Witness ==
    /\ Len(round_track) = NUM_ROUNDS
    /\ phase = "GameOver"
    /\ result = Ok(TRUE)

C12_Inv ==
    /\ result.kind = "ok" => (result.over <=> phase = "GameOver")
    /\ is_finished(round_track, draft_pool) <=> phase = "GameOver"

\* What C12 asks of one step: GameOver is entered only by the action that
\* finishes round NUM_ROUNDS, and only that action returns Ok(true).
C12_Step ==
    /\ (phase' = "GameOver" /\ phase # "GameOver") =>
        /\ Len(round_track) = NUM_ROUNDS - 1
        /\ Len(round_track') = NUM_ROUNDS
        /\ result' = Ok(TRUE)
    /\ result' = Ok(TRUE) => (phase' = "GameOver" /\ phase = "SecondDraft")

\* C12: take_turn returns Ok(true) exactly when the phase after the call is
\* GameOver, which only the action finishing round NUM_ROUNDS brings about,
\* and Ok(false) on every other successful call; is_finished() is true
\* exactly in the states whose phase is GameOver.
C12_GameOverIndicators == [](C12_Inv) /\ [][C12_Step]_vars

C12_Witness ==
    /\ phase = "GameOver"
    /\ result.kind = "ok"
    /\ result.over
    /\ is_finished(round_track, draft_pool)

\* C13: init(n) returns the invalid-player-count error exactly when n is
\* outside 2..=4, and for n in {2,3,4} the state it returns has exactly n
\* players, phase SelectTemplate and 0 <= start_player_idx = curr_player_idx
\* < n, so that players[curr_player_idx] exists.
C13_InitState ==
    /\ \A n \in 0..(MaxNumPlayers + 1) :
        (init_err(n) # "") <=> ~(n \in 2..4)
    /\ called.op = "init" =>
        /\ called.num_players \in 2..4
        /\ Len(players) = called.num_players
        /\ phase = "SelectTemplate"
        /\ start_player_idx = curr_player_idx
        /\ start_player_idx \in 0..(called.num_players - 1)
        /\ curr_player_idx < Len(players)

\* C14: every player holds exactly two candidate templates, so the player
\* to act in SelectTemplate has idx 0 and idx 1 accepted and every other idx
\* refused.
C14_TwoTemplates ==
    /\ \A p \in 1..N : Len(players[p].templates) = 2
    /\ (phase = "SelectTemplate" /\ curr_player_idx < N) =>
        \A idx \in 0..MaxIdx :
            (select_template(Me, idx).err = "") <=> (idx \in {0, 1})

\* The acting player after the step has the value of template idx as
\* tokens, its slots on the board, and the dice it had.
SelectedTemplate(idx) ==
    LET template == TemplateOf(Me.templates[idx + 1])
        after == players'[curr_player_idx + 1]
    IN  /\ after.tokens = template.value
        /\ \A i \in 1..BOARD_ROWS : \A j \in 1..BOARD_COLS :
            /\ after.board[i][j].slot = template.slots[i][j]
            /\ after.board[i][j].die = Me.board[i][j].die
            /\ after.board[i][j].die = NoDie

\* What C15 asks of one step taken in SelectTemplate.
C15_Step ==
    (phase = "SelectTemplate" /\ curr_player_idx < N) =>
        /\ \A idx \in 0..MaxIdx :
            idx >= Len(Me.templates) =>
                select_template_arm(TurnAction(idx, NoCoords)).result.kind = "err"
        /\ result'.kind = "ok" =>
            /\ \E idx \in 0..(Len(Me.templates) - 1) : SelectedTemplate(idx)
            /\ \A p \in 1..N :
                p # curr_player_idx + 1 => players'[p] = players[p]
        /\ result'.kind = "err" =>
            /\ players' = players
            /\ curr_player_idx' = curr_player_idx

Rejected(action) ==
    LET s == take_turn(action)
    IN  /\ s.result.kind = "err"
        /\ [s EXCEPT !.result = result] = Now

\* C16: an action whose kind does not match the phase is rejected with the
\* state unchanged: in SelectTemplate an action that drafts a die onto a
\* destination, in FirstDraft and SecondDraft an action that selects a
\* template (an idx and no destination).
C16_WrongPhaseRejected ==
    /\ (phase = "SelectTemplate" /\ curr_player_idx < N) =>
        \A idx \in 0..MaxIdx : \A coords \in InRangeCoords :
            Rejected(TurnAction(idx, coords))
    /\ phase \in DraftPhases =>
        \A idx \in 0..MaxIdx : Rejected(TurnAction(idx, NoCoords))

\* take_turn(action) returns Ok, takes die idx out of the draft pool,
\* changes no board and passes the turn as a placement does.
Discarded(idx) ==
    LET s == take_turn(TurnAction(idx, NoCoords))
    IN  /\ s.result.kind = "ok"
        /\ s.players = players
        /\ s.track = round_track => s.pool = RemoveAt(draft_pool, idx)
        /\ phase = "FirstDraft" =>
            /\ s.curr = first_draft_advance(curr_player_idx).curr
            /\ s.phase = first_draft_advance(curr_player_idx).phase
        /\ phase = "SecondDraft" =>
            s.curr = second_draft_advance(curr_player_idx)

\* C17: in FirstDraft and SecondDraft a draft of a pool die with no
\* destination succeeds: the die leaves the draft pool, no board changes and
\* the turn advances as after a successful placement.
C17_DraftWithoutDestination ==
    phase \in DraftPhases =>
        \A idx \in 0..(Len(draft_pool) - 1) : Discarded(idx)

\* C18: in FirstDraft and SecondDraft a draft whose idx is not below
\* draft_pool.len() is rejected with an error and the state unchanged, and
\* no call ends in the panic of an out-of-range removal.
C18_DraftIndexOutOfRange ==
    /\ phase \in DraftPhases =>
        \A idx \in Len(draft_pool)..(Len(draft_pool) + 1) :
            \A coords \in InRangeCoords : Rejected(TurnAction(idx, coords))
    /\ result # Panic("removal index out of bounds")

DieAt(board, c) == board[c[1] + 1][c[2] + 1].die

\* The cells that share an edge with cell c.
OrthogonalNeighbours(c) ==
    {d \in InRangeCoords :
        \/ d[1] = c[1] /\ (d[2] = c[2] + 1 \/ d[2] = c[2] - 1)
        \/ d[2] = c[2] /\ (d[1] = c[1] + 1 \/ d[1] = c[1] - 1)}

\* Some occupied orthogonal neighbour of cell c holds a die with the colour
\* or the face of die.
Clashes(board, c, die) ==
    \E d \in OrthogonalNeighbours(c) :
        /\ HasDie(board, d)
        /\ \/ DieAt(board, d).color = die.color
           \/ DieAt(board, d).face = die.face

\* C19: place_die rejects every die that has an occupied orthogonal
\* neighbour of its colour or of its face, and no two orthogonally adjacent
\* dice on a board share a colour or a face.
C19_ZeroToleranceAdjacency ==
    /\ phase \in DraftPhases =>
        \A idx \in 0..(Len(draft_pool) - 1) : \A c \in InRangeCoords :
            Clashes(Me.board, c, draft_pool[idx + 1]) =>
                place_die(Me, c, draft_pool[idx + 1]).err # ""
    /\ \A p \in 1..N : \A c \in InRangeCoords :
        HasDie(players[p].board, c) =>
            ~Clashes(players[p].board, c, DieAt(players[p].board, c))

\* The cells that share an edge or a corner with cell c.
Neighbours(c) ==
    {d \in InRangeCoords :
        /\ d # c
        /\ d[1] - c[1] \in -1..1
        /\ d[2] - c[2] \in -1..1}

Isolated(board, c) == \A d \in Neighbours(c) : ~HasDie(board, d)

Border(c) ==
    c[1] = 0 \/ c[1] = BOARD_ROWS - 1 \/ c[2] = 0 \/ c[2] = BOARD_COLS - 1

\* C20: a die put on a cell with no occupied orthogonal or diagonal
\* neighbour is accepted only on a border cell of an empty board (game.rs
\* has no ignore-adjacency modifier); on an empty board every interior cell
\* is rejected and every border cell whose slot admits the die is accepted.
C20_IsolatedPlacement ==
    phase \in DraftPhases =>
        \A idx \in 0..(Len(draft_pool) - 1) : \A c \in InRangeCoords :
            LET die == draft_pool[idx + 1]
                accepted == place_die(Me, c, die).err = ""
            IN  /\ (Isolated(Me.board, c) /\ accepted) =>
                    (EmptyCells(Me.board) = InRangeCoords /\ Border(c))
                /\ EmptyCells(Me.board) = InRangeCoords =>
                    /\ ~Border(c) => ~accepted
                    /\ (Border(c)
                            /\ SlotAdmits(Me.board[c[1] + 1][c[2] + 1].slot, die))
                        => accepted

\* The destinations a placement can name: every cell of the grid, and one
\* row and one column outside it.
Destinations == (0..BOARD_ROWS) \X (0..BOARD_COLS)

\* The player with die put on coords and nothing else changed.
WithDie(player, coords, die) ==
    [player EXCEPT !.board[coords[1] + 1][coords[2] + 1].die = die]

\* place_die accepts die on coords for the acting player only inside the
\* grid, on an empty cell whose slot admits the die, and then stores the die
\* there and nothing else.
AcceptedOnlyIfLegal(coords, die) ==
    LET placed == place_die(Me, coords, die)
    IN  placed.err = "" =>
            /\ coords \in InRangeCoords
            /\ ~HasDie(Me.board, coords)
            /\ SlotAdmits(Me.board[coords[1] + 1][coords[2] + 1].slot, die)
            /\ placed.player = WithDie(Me, coords, die)

\* Every die on a board satisfies the slot of its cell.
DiceFitSlots ==
    \A p \in 1..Len(players) : \A c \in OccupiedCells(players[p].board) :
        SlotAdmits(players[p].board[c[1] + 1][c[2] + 1].slot,
                   DieAt(players[p].board, c))

\* C21: a placement is accepted only if its coordinates are inside the 4x5
\* grid, the target cell is empty and the slot admits the die (a Color slot
\* the same colour, a Face slot the same face, an Any slot every die), so no
\* accepted placement overwrites a die; and in every reachable state every
\* die on a board satisfies the slot of its cell.
C21_PlacementLegality ==
    /\ (phase \in DraftPhases /\ curr_player_idx < N) =>
        \A i \in 1..Len(draft_pool) : \A coords \in Destinations :
            AcceptedOnlyIfLegal(coords, draft_pool[i])
    /\ DiceFitSlots

\* A die sits on a cell whose slot demands a colour and a die sits on a cell
\* whose slot demands a face, while the acting player faces an occupied cell.
C21_Witness ==
    /\ phase \in DraftPhases
    /\ draft_pool # <<>>
    /\ OccupiedCells(Me.board) # {}
    /\ \E p \in 1..Len(players) : \E c \in OccupiedCells(players[p].board) :
        players[p].board[c[1] + 1][c[2] + 1].slot.kind = "Color"
    /\ \E p \in 1..Len(players) : \E c \in OccupiedCells(players[p].board) :
        players[p].board[c[1] + 1][c[2] + 1].slot.kind = "Face"

\* Every die on a board before the step is on the same cell after it.
DiceStay ==
    \/ players' = players
    \/ /\ Len(players') = Len(players)
       /\ \A p \in 1..Len(players) :
            \/ players'[p].board = players[p].board
            \/ \A c \in OccupiedCells(players[p].board) :
                DieAt(players'[p].board, c) = DieAt(players[p].board, c)

\* C22: a placed die is permanent: once a cell of a player's board holds a
\* die, it holds the same die, colour and face, after every later action.
C22_PlacedDiePermanent == [][DiceStay]_vars

\* A player holds dice of two rounds: the earlier ones have stayed through
\* the drafts, the rejected actions and the round change that followed.
C22_Witness ==
    /\ round_track # <<>>
    /\ \E p \in 1..Len(players) :
        Cardinality(OccupiedCells(players[p].board)) >= 3

\* Mutant: RerollAllDiceInPool is in the wrong phase in both draft phases.
in_wrong_phase_reroll_in_any_draft(tool, ph) ==
    \/ ph = "SelectTemplate"
    \/ ph = "GameOver"
    \/ ph \in {"FirstDraft", "SecondDraft"} /\ tool.tool_type = "RerollAllDiceInPool"
    \/ ph = "SecondDraft" /\ tool.tool_type = "DraftTwoDice"

\* Tool::in_wrong_phase (turn.rs:37-47)
in_wrong_phase(tool, ph) ==
    \/ ph = "SelectTemplate"
    \/ ph = "GameOver"
    \/ ph = "FirstDraft" /\ tool.tool_type = "RerollAllDiceInPool"
    \/ ph = "SecondDraft" /\ tool.tool_type = "DraftTwoDice"

\* Every action a caller can hand to take_turn: TurnAction has an idx and
\* optional coordinates and nothing else (game.rs:163-167).
Requests ==
    {TurnAction(idx, coords) :
        idx \in 0..MaxIdx, coords \in Destinations \cup {NoCoords}}

\* The acting player may use tool k (1-based in tools): the tool is legal
\* in the phase and the player holds its cost in tokens.
CanUseTool(k) ==
    /\ curr_player_idx < N
    /\ ~in_wrong_phase(tools[k], phase)
    /\ Me.tokens >= tools[k].cost

\* The call that ended in s was a successful use of tool k: it returned Ok
\* and the acting player paid the tool's cost.
UsedTool(s, k) ==
    /\ s.result.kind = "ok"
    /\ s.players[curr_player_idx + 1].tokens = Me.tokens - tools[k].cost

\* C23: every tool's cost is 1 or 2 and never decreases; a player who may
\* use a tool can use it, and after the use the tool costs 2 whatever it
\* cost before, the other tools costing what they did.
C23_ToolCostEscalation ==
    /\ \A k \in 1..Len(tools) : tools[k].cost \in {1, 2}
    /\ \A k \in 1..Len(tools) :
        CanUseTool(k) =>
            \E r \in Requests :
                LET s == take_turn(r)
                IN  /\ UsedTool(s, k)
                    /\ s.tools = [tools EXCEPT ![k].cost = 2]

\* C24: a player who may use a tool can use it, and the successful use
\* leaves curr_player_idx and phase unchanged: the same player is still the
\* one to act.
C24_UseToolKeepsTurn ==
    \A k \in 1..Len(tools) :
        CanUseTool(k) =>
            \E r \in Requests :
                LET s == take_turn(r)
                IN  /\ UsedTool(s, k)
                    /\ s.curr = curr_player_idx
                    /\ s.phase = phase

\* The errors of take_turn that answer a template selection or a draft
\* (game.rs:100, 113, 128, 179, 192, 196, 200, 203).
DraftErrors ==
    {"Missing destination coordinates", "Game is over",
     "Invalid template index", "Invalid coordinates",
     "Cell is already occupied", "Die color does not match slot",
     "Die face does not match slot"}

\* The acting player may not use tool k: k is beyond the catalog, or the
\* tool is illegal in the phase, or the player holds fewer tokens than its
\* cost.
CannotUseTool(k) ==
    /\ curr_player_idx < N
    /\ \/ k > Len(tools)
       \/ in_wrong_phase(tools[k], phase)
       \/ Me.tokens < tools[k].cost

\* C25: a use of a tool the acting player may not use is answered with an
\* error of its own, which leaves tokens, boards, draft pool, round track
\* and tool costs unchanged; and no player's token count is below 0.
C25_FailedUseToolRejected ==
    /\ \A p \in 1..Len(players) : players[p].tokens >= 0
    /\ \A k \in 1..(Len(tools) + 1) :
        (Alive /\ CannotUseTool(k)) =>
            \E r \in Requests :
                LET s == take_turn(r)
                IN  /\ s.result.kind = "err"
                    /\ s.result.msg \notin DraftErrors
                    /\ s.players = players
                    /\ s.pool = draft_pool
                    /\ s.track = round_track
                    /\ s.tools = tools

\* ALL_TOOL_TYPES of tool.rs (tool.rs:27-41): the implemented tool types.
IMPLEMENTED_TOOL_TYPES ==
    <<"BumpDraftedDie", "FlipDraftedDie", "RerollDraftedDie",
      "SwapDraftedDieWithRoundTrack", "RerollAllDiceInPool",
      "PlaceIgnoringAdjacency">>

\* C26: every tool of GameState.tools is of an implemented tool type, none
\* is SwapDraftedDieWithBag, a Move* tool or DraftTwoDice, and the three
\* dealt tools are pairwise distinct.
C26_DealtToolsImplemented ==
    /\ Len(tools) = NUM_TOOLS
    /\ \A k \in 1..Len(tools) :
        \E i \in 1..Len(IMPLEMENTED_TOOL_TYPES) :
            tools[k].tool_type = IMPLEMENTED_TOOL_TYPES[i]
    /\ \A k, l \in 1..Len(tools) :
        k # l => tools[k].tool_type # tools[l].tool_type

----------------------------------------------------------------------------
\* Scoring: objective.rs, and Player::calculate_score of game.rs.

\* board.iter().flatten(): the cells of a board in row-major order.
Flattened(board) ==
    [k \in 1..(BOARD_ROWS * BOARD_COLS) |->
        board[((k - 1) \div BOARD_COLS) + 1][((k - 1) % BOARD_COLS) + 1]]

\* Mutant: count_number counts every die, whatever its face.
count_number_any_face(board, n) ==
    Len(SelectSeq(Flattened(board), LAMBDA cell : cell.die # NoDie))

\* count_number (objective.rs:117-123; game.rs:341-347 is the same text)
count_number(board, n) ==
    Len(SelectSeq(Flattened(board),
                  LAMBDA cell : cell.die # NoDie /\ cell.die.face = n))

\* count_color (objective.rs:124-132; game.rs:348-354 is the same text)
count_color(board, c) ==
    Len(SelectSeq(Flattened(board),
                  LAMBDA cell : cell.die # NoDie /\ cell.die.color = c))

\* color as usize: the position of a colour in enum Color.
ColorIdx(c) == CHOOSE k \in 0..(NUM_COLORS - 1) : ALL_COLORS[k + 1] = c

\* The loop of distinct_numbers from cell k on, seen holding the indices
\* whose flag is set.
RECURSIVE distinct_numbers_from(_, _, _)
distinct_numbers_from(cells, k, seen) ==
    IF k > Len(cells)
    THEN TRUE
    ELSE IF cells[k].die = NoDie
    THEN FALSE
    ELSE LET idx == cells[k].die.face - 1
         IN  IF idx \in seen
             THEN FALSE
             ELSE distinct_numbers_from(cells, k + 1, seen \cup {idx})

\* Mutant: distinct_numbers passes over the cells that hold no die.
RECURSIVE distinct_numbers_skips_empty_from(_, _, _)
distinct_numbers_skips_empty_from(cells, k, seen) ==
    IF k > Len(cells)
    THEN TRUE
    ELSE IF cells[k].die = NoDie
    THEN distinct_numbers_skips_empty_from(cells, k + 1, seen)
    ELSE LET idx == cells[k].die.face - 1
         IN  IF idx \in seen
             THEN FALSE
             ELSE distinct_numbers_skips_empty_from(cells, k + 1,
                                                    seen \cup {idx})

distinct_numbers_skips_empty(cells) ==
    distinct_numbers_skips_empty_from(cells, 1, {})

\* distinct_numbers (objective.rs:86-100), on the cells of a row or column.
distinct_numbers(cells) == distinct_numbers_from(cells, 1, {})

RECURSIVE distinct_colors_from(_, _, _)
distinct_colors_from(cells, k, seen) ==
    IF k > Len(cells)
    THEN TRUE
    ELSE IF cells[k].die = NoDie
    THEN FALSE
    ELSE LET idx == ColorIdx(cells[k].die.color)
         IN  IF idx \in seen
             THEN FALSE
             ELSE distinct_colors_from(cells, k + 1, seen \cup {idx})

\* distinct_colors (objective.rs:101-115)
distinct_colors(cells) == distinct_colors_from(cells, 1, {})

\* board.iter().map(|row| &row[c]): the cells of column c (0-based).
Column(board, c) == [i \in 1..BOARD_ROWS |-> board[i][c + 1]]

\* Mutant: has_diag looks at the left neighbour only.
has_diag_left_only(row, j, color) ==
    j > 0 /\ row[j].die # NoDie /\ row[j].die.color = color

\* has_diag (objective.rs:153-157); row is 1-based, j is the 0-based column.
has_diag(row, j, color) ==
    \/ j > 0 /\ row[j].die # NoDie /\ row[j].die.color = color
    \/ j < BOARD_COLS - 1 /\ row[j + 2].die # NoDie /\ row[j + 2].die.color = color

\* color_diagonals (objective.rs:134-151): the cells counted.
color_diagonals(board) ==
    Cardinality(
        {c \in InRangeCoords :
            LET i == c[1]
                j == c[2]
                d == board[i + 1][j + 1].die
            IN  /\ d # NoDie
                /\ \/ i > 0 /\ has_diag(board[i], j, d.color)
                   \/ i < BOARD_ROWS - 1 /\ has_diag(board[i + 2], j, d.color)})

\* The least element of a non-empty set of numbers: Iterator::min.
MinOf(S) == CHOOSE m \in S : \A x \in S : m <= x

\* Objective::score of objective.rs (objective.rs:34-83)
score(obj, board) ==
    CASE obj.kind = "ColumnNumbers" ->
            obj.n * Cardinality({c \in 0..(BOARD_COLS - 1) :
                                    distinct_numbers(Column(board, c))})
      [] obj.kind = "RowNumbers" ->
            obj.n * Cardinality({i \in 1..BOARD_ROWS : distinct_numbers(board[i])})
      [] obj.kind = "Numbers" ->
            obj.n * MinOf({count_number(board, i) : i \in 1..6})
      [] obj.kind = "ColumnColors" ->
            obj.n * Cardinality({c \in 0..(BOARD_COLS - 1) :
                                    distinct_colors(Column(board, c))})
      [] obj.kind = "RowColors" ->
            obj.n * Cardinality({i \in 1..BOARD_ROWS : distinct_colors(board[i])})
      [] obj.kind = "Colors" ->
            obj.n * MinOf({count_color(board, ALL_COLORS[k]) :
                              k \in 1..Len(ALL_COLORS)})
      [] obj.kind = "Pair12" ->
            obj.n * Min(count_number(board, 1), count_number(board, 2))
      [] obj.kind = "Pair34" ->
            obj.n * Min(count_number(board, 3), count_number(board, 4))
      [] obj.kind = "Pair56" ->
            obj.n * Min(count_number(board, 5), count_number(board, 6))
      [] obj.kind = "ColorDiagonals" -> obj.n * color_diagonals(board)

\* What a scoring call yields: a number, or the panic of todo!().
Scored(v) == [panic |-> FALSE, value |-> v]
Todo == [panic |-> TRUE, value |-> 0]

\* Objective::score of game.rs (game.rs:296-327), the one calculate_score
\* calls: game.rs declares its own Objective, and five arms are todo!().
game_score(obj, board) ==
    CASE obj.kind = "ColumnNumbers" -> Todo
      [] obj.kind = "RowNumbers" -> Todo
      [] obj.kind = "Numbers" ->
            Scored(obj.n * MinOf({count_number(board, i) : i \in 1..6}))
      [] obj.kind = "ColumnColors" -> Todo
      [] obj.kind = "RowColors" -> Todo
      [] obj.kind = "Colors" ->
            Scored(obj.n * MinOf({count_color(board, ALL_COLORS[k]) :
                                     k \in 1..Len(ALL_COLORS)}))
      [] obj.kind = "Pair12" ->
            Scored(obj.n * Min(count_number(board, 1), count_number(board, 2)))
      [] obj.kind = "Pair34" ->
            Scored(obj.n * Min(count_number(board, 3), count_number(board, 4)))
      [] obj.kind = "Pair56" ->
            Scored(obj.n * Min(count_number(board, 5), count_number(board, 6)))
      [] obj.kind = "ColorDiagonals" -> Todo

\* The loop over the objectives in calculate_score (game.rs:224-226), from
\* objective k on with the score so far.
RECURSIVE add_objectives(_, _, _, _)
add_objectives(board, objs, k, sofar) ==
    IF k > Len(objs)
    THEN Scored(sofar)
    ELSE LET s == game_score(objs[k], board)
         IN  IF s.panic
             THEN Todo
             ELSE add_objectives(board, objs, k + 1, sofar + s.value)

\* Player::calculate_score (game.rs:211-229)
calculate_score(player, objs) ==
    LET cells == Flattened(player.board)
        secret == Len(SelectSeq(cells, LAMBDA cell : cell.die # NoDie
                                        /\ cell.die.color = player.secret))
        none == Len(SelectSeq(cells, LAMBDA cell : cell.die = NoDie))
    IN  add_objectives(player.board, objs, 1, secret - none)

\* GameState::player_scores (game.rs:146-151): the score of every player, or
\* the panic of the first calculate_score that panics.
player_scores_of(ps, objs) ==
    LET each == [p \in 1..Len(ps) |-> calculate_score(ps[p], objs)]
    IN  IF \E p \in 1..Len(ps) : each[p].panic
        THEN [panic |-> TRUE, scores |-> <<>>]
        ELSE [panic |-> FALSE, scores |-> [p \in 1..Len(ps) |-> each[p].value]]

\* player_scores on the current GameState.
player_scores == player_scores_of(players, objectives)

\* The sum of the scores of objectives k.. of objs on a board.
RECURSIVE ObjectivePoints(_, _, _)
ObjectivePoints(objs, k, board) ==
    IF k > Len(objs)
    THEN 0
    ELSE score(objs[k], board) + ObjectivePoints(objs, k + 1, board)

\* The score of a player as the rules give it.
RuleScore(player) ==
    Cardinality({c \in OccupiedCells(player.board) :
                    DieAt(player.board, c).color = player.secret})
        - Cardinality(EmptyCells(player.board))
        + player.tokens
        + ObjectivePoints(objectives, 1, player.board)

\* C27: player_scores returns, for every player, the number of dice of the
\* player's secret colour minus the number of empty cells plus the player's
\* remaining tokens plus the sum of the three objectives' scores on the
\* player's board.
C27_PlayerScores ==
    player_scores =
        [panic |-> FALSE,
         scores |-> [p \in 1..Len(players) |-> RuleScore(players[p])]]

\* player_scores returns the placement points and objective points, without
\* the tokens, whenever none of the objectives is one game.rs leaves todo!().
PlayerScoresWithoutTokens ==
    (\A k \in 1..Len(objectives) : ~game_score(objectives[k], EmptyBoard).panic)
        => player_scores =
            [panic |-> FALSE,
             scores |-> [p \in 1..Len(players) |->
                            RuleScore(players[p]) - players[p].tokens]]

----------------------------------------------------------------------------
\* Objective::score as a function of its inputs: the board is drawn from a
\* family of boards and the calls score it.

\* The rows shifted by 0..MaxShift take part in the boards.
MaxShift == 2
\* The multipliers 1..MaxMultiplier are tried next to the catalog's.
MaxMultiplier == 2

\* A full row: the colours and the faces in cyclic order, starting s later.
RowOfDice(s) ==
    [j \in 1..BOARD_COLS |->
        [slot |-> SlotAny,
         die |-> Dice(ALL_COLORS[((j - 1 + s) % NUM_COLORS) + 1],
                      ((j - 1 + s) % 6) + 1)]]

EmptyRow == [j \in 1..BOARD_COLS |-> BoardCellDefault]

\* RowOfDice(0) with its second cell empty, with a second Red die, and with
\* a second face 1.
RowWithHole == [RowOfDice(0) EXCEPT ![2].die = NoDie]
RowWithTwoReds == [RowOfDice(0) EXCEPT ![2].die = Dice("Red", 2)]
RowWithTwoOnes == [RowOfDice(0) EXCEPT ![2].die = Dice("Yellow", 1)]

Rows ==
    {RowOfDice(s) : s \in 0..MaxShift}
        \cup {EmptyRow, RowWithHole, RowWithTwoReds, RowWithTwoOnes}

\* A row with Red 3 on the columns reds, Blue 4 on the columns blues
\* (1-based) and its other cells empty.
TestRow(reds, blues) ==
    [j \in 1..BOARD_COLS |->
        IF j \in reds THEN [slot |-> SlotAny, die |-> Dice("Red", 3)]
        ELSE IF j \in blues THEN [slot |-> SlotAny, die |-> Dice("Blue", 4)]
        ELSE BoardCellDefault]

\* The board of test_color_diagonals (objective.rs:186-235).
TestBoard ==
    << TestRow({2}, {}), TestRow({1}, {3}), TestRow({4}, {2}),
       TestRow({3}, {5}) >>

Boards == [1..BOARD_ROWS -> Rows] \cup {TestBoard}

ObjectiveKinds == {ALL_OBJECTIVES[k].kind : k \in 1..Len(ALL_OBJECTIVES)}

\* The objectives scored: every kind with its catalog multiplier and with
\* the multipliers 1..MaxMultiplier.
Objectives ==
    {ALL_OBJECTIVES[k] : k \in 1..Len(ALL_OBJECTIVES)}
        \cup {[kind |-> kind, n |-> n] :
                kind \in ObjectiveKinds, n \in 1..MaxMultiplier}

ScoreCall == [op |-> "score", num_players |-> 0]

\* One player holding the board to score; no game is in progress.
ScoreInit ==
    /\ \E board \in Boards, secret \in {ALL_COLORS[1]} :
        players = << [tokens |-> 0, board |-> board, secret |-> secret,
                      templates |-> <<>>] >>
    /\ start_player_idx = 0
    /\ curr_player_idx = 0
    /\ phase = "GameOver"
    /\ dice_bag = <<>>
    /\ draft_pool = <<>>
    /\ round_track = <<>>
    /\ tools = <<>>
    /\ objectives = <<>>
    /\ rng = 1
    /\ result = NoResult
    /\ called = ScoreCall
    /\ log = <<>>
    /\ api = NoApi

\* The board the calls score.
Board == players[1].board

\* obj.score(&board)
ScoreObjective ==
    /\ result = NoResult
    /\ \E obj \in Objectives :
        result' = [kind |-> "score", over |-> FALSE, msg |-> "",
                   obj |-> obj, value |-> score(obj, Board)]
    /\ UNCHANGED <<players, start_player_idx, curr_player_idx, phase, dice_bag,
                   draft_pool, round_track, tools, objectives, rng, called, log,
                   api>>

\* has_diag(&board[i], j, color)
HasDiag ==
    /\ result = NoResult
    /\ \E i \in 0..(BOARD_ROWS - 1), j \in 0..(BOARD_COLS - 1),
          k \in 1..Len(ALL_COLORS) :
        result' = [kind |-> "has_diag", over |-> FALSE, msg |-> "",
                   i |-> i, j |-> j, color |-> ALL_COLORS[k],
                   value |-> has_diag(Board[i + 1], j, ALL_COLORS[k])]
    /\ UNCHANGED <<players, start_player_idx, curr_player_idx, phase, dice_bag,
                   draft_pool, round_track, tools, objectives, rng, called, log,
                   api>>

ScoreNext == ScoreObjective \/ HasDiag

ScoreSpec == ScoreInit /\ [][ScoreNext]_vars

\* The last call scored an objective of one of the kinds.
ScoredKind(kinds) == result.kind = "score" /\ result.obj.kind \in kinds

\* The number of dice on a board with face f, and with colour c.
FaceCount(board, f) ==
    Cardinality({c \in OccupiedCells(board) : DieAt(board, c).face = f})
ColorCount(board, c) ==
    Cardinality({d \in OccupiedCells(board) : DieAt(board, d).color = c})

\* The faces an objective of a count kind counts.
CountedFaces(kind) ==
    CASE kind = "Numbers" -> 1..6
      [] kind = "Pair12" -> {1, 2}
      [] kind = "Pair34" -> {3, 4}
      [] kind = "Pair56" -> {5, 6}

\* v is n times the least of the counts, and 0 when some count is 0.
TimesLeast(v, n, counts) ==
    /\ \E x \in counts : v = n * x /\ \A y \in counts : x <= y
    /\ 0 \in counts => v = 0

\* C28: the count objectives score the multiplier times the minimum of the
\* counts: Numbers over the faces 1..6, Colors over the five colours,
\* Pair12, Pair34 and Pair56 over their two faces; each is 0 when a counted
\* face or colour is absent from the board.
C28_CountObjectives ==
    /\ ScoredKind({"Numbers", "Pair12", "Pair34", "Pair56"}) =>
        TimesLeast(result.value, result.obj.n,
                   {FaceCount(Board, f) : f \in CountedFaces(result.obj.kind)})
    /\ ScoredKind({"Colors"}) =>
        TimesLeast(result.value, result.obj.n,
                   {ColorCount(Board, ALL_COLORS[k]) : k \in 1..Len(ALL_COLORS)})

\* Numbers scored a board that holds every face at least twice.
C28_Witness ==
    /\ ScoredKind({"Numbers"})
    /\ result.value >= 2 * result.obj.n
    /\ result.obj.n > 1

\* The cells of row i and of column j.
RowCells(i) == {c \in InRangeCoords : c[1] = i}
ColumnCells(j) == {c \in InRangeCoords : c[2] = j}

\* Every cell of the line holds a die and no two hold the same face.
DistinctFaces(board, line) ==
    /\ \A c \in line : HasDie(board, c)
    /\ \A c, d \in line : c # d => DieAt(board, c).face # DieAt(board, d).face

\* Every cell of the line holds a die and no two hold the same colour.
DistinctColors(board, line) ==
    /\ \A c \in line : HasDie(board, c)
    /\ \A c, d \in line : c # d => DieAt(board, c).color # DieAt(board, d).color

AllRows == {RowCells(i) : i \in 0..(BOARD_ROWS - 1)}
AllColumns == {ColumnCells(j) : j \in 0..(BOARD_COLS - 1)}

\* C29: RowNumbers and ColumnNumbers score the multiplier times the number
\* of rows, of columns, in which every cell is occupied and no face occurs
\* twice; RowColors and ColumnColors the same with colours; a row or column
\* with an empty cell or a duplicate adds nothing.
C29_LineObjectives ==
    /\ ScoredKind({"RowNumbers"}) =>
        result.value = result.obj.n
            * Cardinality({l \in AllRows : DistinctFaces(Board, l)})
    /\ ScoredKind({"ColumnNumbers"}) =>
        result.value = result.obj.n
            * Cardinality({l \in AllColumns : DistinctFaces(Board, l)})
    /\ ScoredKind({"RowColors"}) =>
        result.value = result.obj.n
            * Cardinality({l \in AllRows : DistinctColors(Board, l)})
    /\ ScoredKind({"ColumnColors"}) =>
        result.value = result.obj.n
            * Cardinality({l \in AllColumns : DistinctColors(Board, l)})

\* RowNumbers scored a board on which a row qualifies, a row has an empty
\* cell among its dice and a full row repeats a face.
C29_Witness ==
    /\ ScoredKind({"RowNumbers"})
    /\ result.value > 0
    /\ \E l \in AllRows :
        /\ \E c \in l : ~HasDie(Board, c)
        /\ \E c \in l : HasDie(Board, c)
    /\ \E l \in AllRows :
        /\ \A c \in l : HasDie(Board, c)
        /\ ~DistinctFaces(Board, l)

\* The cells of the grid diagonally next to cell c.
DiagonalNeighbours(c) ==
    {d \in InRangeCoords :
        /\ d[1] - c[1] \in {-1, 1}
        /\ d[2] - c[2] \in {-1, 1}}

\* The occupied cells with a die of their own colour on a diagonal
\* neighbour.
DiagonalCells(board) ==
    {c \in OccupiedCells(board) :
        \E d \in DiagonalNeighbours(c) :
            /\ HasDie(board, d)
            /\ DieAt(board, d).color = DieAt(board, c).color}

\* C30: ColorDiagonals scores the multiplier times the number of occupied
\* cells with a die of the same colour on at least one diagonal neighbour
\* inside the grid, each such cell counted once; has_diag(row, j, c) holds
\* iff the cell left or right of column j, where the row has one, holds a
\* die of colour c.  On the board of test_color_diagonals six cells count.
C30_ColorDiagonals ==
    /\ ScoredKind({"ColorDiagonals"}) =>
        result.value = result.obj.n * Cardinality(DiagonalCells(Board))
    /\ (ScoredKind({"ColorDiagonals"}) /\ Board = TestBoard) =>
        result.value = result.obj.n * 6
    /\ result.kind = "has_diag" =>
        (result.value <=>
            \E d \in {<<result.i, result.j - 1>>, <<result.i, result.j + 1>>}
                        \cap InRangeCoords :
                /\ HasDie(Board, d)
                /\ DieAt(Board, d).color = result.color)

\* ColorDiagonals scored a board on which a die has two diagonal neighbours
\* of its colour and a die has none.
C30_Witness ==
    /\ ScoredKind({"ColorDiagonals"})
    /\ result.obj.n > 1
    /\ result.value > 0
    /\ \E c \in OccupiedCells(Board) :
        Cardinality({d \in DiagonalNeighbours(c) :
                       /\ HasDie(Board, d)
                       /\ DieAt(Board, d).color = DieAt(Board, c).color}) >= 2
    /\ OccupiedCells(Board) \ DiagonalCells(Board) # {}

----------------------------------------------------------------------------
\* The operations of Dice (color.rs) on one die, held as the only die of the
\* draft pool.

\* u8::MAX
U8_MAX == 255

\* Dice::reroll (color.rs:97-99) with the face the rng chooses.
reroll(die, face) == [die EXCEPT !.face = face]

\* Dice::flip (color.rs:100-102): 7 - self.face in u8.  Below 0 the
\* subtraction overflows: a panic where overflow checks are compiled in,
\* the wrapped value where they are not.
flip(die) ==
    IF 7 - die.face >= 0
    THEN {[panic |-> FALSE, die |-> [die EXCEPT !.face = 7 - die.face]]}
    ELSE {[panic |-> TRUE, die |-> die],
          [panic |-> FALSE,
           die |-> [die EXCEPT !.face = (7 - die.face) % (U8_MAX + 1)]]}

\* Dice::increment (color.rs:103-105): u8::saturating_add(1)
increment(die) ==
    [die EXCEPT !.face = IF die.face + 1 > U8_MAX THEN U8_MAX ELSE die.face + 1]

\* Dice::decrement (color.rs:106-108): u8::saturating_sub(1)
decrement(die) ==
    [die EXCEPT !.face = IF die.face - 1 < 0 THEN 0 ELSE die.face - 1]

DiceCall == [op |-> "dice", num_players |-> 0]

\* A die of any colour with a face in 1..6, as Dice::roll makes it
\* (color.rs:93-96).
DiceInit ==
    /\ \E k \in 1..Len(ALL_COLORS), face \in 1..6 :
        draft_pool = <<Dice(ALL_COLORS[k], face)>>
    /\ players = <<>>
    /\ start_player_idx = 0
    /\ curr_player_idx = 0
    /\ phase = "FirstDraft"
    /\ dice_bag = <<>>
    /\ round_track = <<>>
    /\ tools = <<>>
    /\ objectives = <<>>
    /\ rng = 1
    /\ result = NoResult
    /\ called = DiceCall
    /\ log = <<>>
    /\ api = NoApi

\* The die the operations act on.
Die == draft_pool[1]

\* The operation leaves the die as die, or panicked.
DieBecomes(panic, die) ==
    /\ draft_pool' = IF panic THEN draft_pool ELSE <<die>>
    /\ result' = IF panic
                 THEN Panic("attempt to subtract with overflow")
                 ELSE Ok(FALSE)
    /\ UNCHANGED <<players, start_player_idx, curr_player_idx, phase, dice_bag,
                   round_track, tools, objectives, rng, called, log, api>>

Reroll == Alive /\ \E face \in 1..6 : DieBecomes(FALSE, reroll(Die, face))

Flip == Alive /\ \E out \in flip(Die) : DieBecomes(out.panic, out.die)

Increment == Alive /\ DieBecomes(FALSE, increment(Die))

Decrement == Alive /\ DieBecomes(FALSE, decrement(Die))

DiceNext == Reroll \/ Flip \/ Increment \/ Decrement

DiceSpec == DiceInit /\ [][DiceNext]_vars

\* C31: after any sequence of reroll, flip, increment and decrement on a die
\* whose face starts in 1..6 the face is in 1..6 (increment leaves a 6 a 6,
\* decrement leaves a 1 a 1), and no operation panics.
C31_DieFacesInRange ==
    /\ Die.face \in 1..6
    /\ result.kind # "panic"

\* What holds instead: reroll and flip keep a face of 1..6 in 1..6, and
\* increment and decrement keep it there except at 6 and at 1.
FaceKeptBelowBounds ==
    Die.face \in 1..6 =>
        /\ \A face \in 1..6 : reroll(Die, face).face \in 1..6
        /\ \A out \in flip(Die) : ~out.panic /\ out.die.face = 7 - Die.face
        /\ Die.face < 6 => increment(Die).face \in 1..6
        /\ Die.face > 1 => decrement(Die).face \in 1..6
        /\ Die.face = 6 => increment(Die).face = 7
        /\ Die.face = 1 => decrement(Die).face = 0

----------------------------------------------------------------------------
\* A game played by the random agent (agent.rs), as test_random_agent plays
\* it: init(2), then the action the agent chooses, until is_finished().

\* all_valid_drafts (agent.rs:50-66): every pool die on every cell that
\* accepts it.  The agent asks Player::can_place_die, which game.rs does not
\* declare; the cells are those on which place_die accepts the die.
all_valid_drafts ==
    {TurnAction(idx, coords) :
        idx \in 0..(Len(draft_pool) - 1), coords \in InRangeCoords}
        \cap {a \in [idx : 0..(Len(draft_pool) - 1), coords : InRangeCoords] :
                place_die_err(Me, a.coords, draft_pool[a.idx + 1]) = ""}

\* TurnAction::pass (turn.rs:19-27): a draft of pool index 0 with no
\* destination.
pass == TurnAction(0, NoCoords)

\* RandomAgent::choose_action (agent.rs:17-48): the actions it may return.
\* game.rs deals no usable tool, so all_valid_tools adds nothing.
choose_action ==
    CASE phase = "SelectTemplate" ->
            {TurnAction(idx, NoCoords) : idx \in 0..(Len(Me.templates) - 1)}
      [] phase \in DraftPhases ->
            IF all_valid_drafts # {} THEN all_valid_drafts ELSE {pass}
      [] phase = "GameOver" -> {pass}

\* GameState::init(2)
AgentInit == Init /\ called = InitCall(2)

\* game.take_turn(&agent.choose_action(&game))?, while the game is not
\* finished and no call has failed (agent.rs:183-189).
AgentTurn ==
    /\ Alive
    /\ result.kind # "err"
    /\ ~is_finished(round_track, draft_pool)
    /\ \E action \in choose_action : Becomes(take_turn(action))

AgentNext == AgentTurn

AgentSpec == AgentInit /\ [][AgentNext]_vars /\ WF_vars(AgentNext)

\* The game is finished in the GameOver phase and player_scores returns one
\* score per player.
AgentGameFinished ==
    /\ is_finished(round_track, draft_pool)
    /\ phase = "GameOver"
    /\ ~player_scores.panic
    /\ Len(player_scores.scores) = Len(players)

\* C32: in a game played from init(2) with the actions the random agent
\* chooses, every take_turn call returns Ok and after finitely many calls
\* the game is finished in the GameOver phase, where player_scores returns
\* one score per player.
C32_AgentGameTerminates ==
    /\ [](result.kind \in {"none", "ok"})
    /\ <>AgentGameFinished

----------------------------------------------------------------------------
\* StainedAPI (api.rs) around the GameState.  api holds its fields and the
\* position of the call in progress:
\*   agents     per seat "human" or "ai" (agents[idx] is None or Some)
\*   game_over  StainedAPI.game_over
\*   pc         "new" after init, "idle" between calls, "agents" inside
\*              process_agents, "dead" after a panic
\*   call, returned, msg   the last call and what it returned
\*   applied    how the last do_action ended; notices: the state notices it
\*              sent per seat; noticed: the turn pointer and phase they show
\*   starts     the start notices sent per seat
\*   view       what the last player_view produced

\* The seats of an API game: GameAPI::init with two PlayerInfo.
ApiSeats == 2

\* winner_id: None
NoWinner == -1

\* The secret of a player in a redacted GameState.
Hidden == "Hidden"

NoView == [panic |-> FALSE, winner_id |-> NoWinner, players |-> <<>>]

\* GameState::redact_secrets, which api.rs calls and game.rs does not
\* declare: the players with every secret but that of seat player_idx
\* left out.
redact_secrets(ps, player_idx) ==
    [q \in 1..Len(ps) |->
        IF q - 1 = player_idx THEN ps[q] ELSE [ps[q] EXCEPT !.secret = Hidden]]

\* The least seat whose score is the maximum: max_indices[0] (api.rs:39-50).
max_index(scores) ==
    CHOOSE idx \in 0..(Len(scores) - 1) :
        /\ \A q \in 1..Len(scores) : scores[q] <= scores[idx + 1]
        /\ \A q \in 1..idx : scores[q] < scores[idx + 1]

\* Mutant: view hands out the players as they are stored.
view_without_redaction(ps, over, player_idx) ==
    IF over
    THEN LET scores == player_scores_of(ps, objectives)
         IN  IF scores.panic
             THEN [panic |-> TRUE, winner_id |-> NoWinner, players |-> <<>>]
             ELSE [panic |-> FALSE, winner_id |-> max_index(scores.scores),
                   players |-> ps]
    ELSE [panic |-> FALSE, winner_id |-> NoWinner, players |-> ps]

\* StainedAPI::view (api.rs:36-56) of a GameState whose players are ps: the
\* players and the winner the PlayerView carries (the other fields of the
\* GameState are cloned as they are), or the panic of player_scores.
view(ps, over, player_idx) ==
    IF over
    THEN LET scores == player_scores_of(ps, objectives)
         IN  IF scores.panic
             THEN [panic |-> TRUE, winner_id |-> NoWinner, players |-> <<>>]
             ELSE [panic |-> FALSE, winner_id |-> max_index(scores.scores),
                   players |-> ps]
    ELSE [panic |-> FALSE, winner_id |-> NoWinner,
          players |-> redact_secrets(ps, player_idx)]

\* human_player_idxs (api.rs:69-73), as 0-based seats.
human_player_idxs == {idx \in 0..(Len(api.agents) - 1) : api.agents[idx + 1] = "human"}

NoNotices == [q \in 1..Len(api.agents) |-> 0]

\* One notice for every human seat.
HumanNotices ==
    [q \in 1..Len(api.agents) |-> IF api.agents[q] = "human" THEN 1 ELSE 0]

\* StainedAPI::do_action (api.rs:57-68): take_turn, then a view for every
\* human seat.  The GameState the call leaves, how it ended, game_over and
\* the notices sent.
do_action(action) ==
    LET s == take_turn(action)
    IN  IF s.result.kind = "err"
        THEN [s |-> s, kind |-> "err", over |-> api.game_over,
              notices |-> NoNotices]
        ELSE IF s.result.kind = "panic"
        THEN [s |-> s, kind |-> "panic", over |-> api.game_over,
              notices |-> NoNotices]
        ELSE IF human_player_idxs # {}
                /\ view(s.players, s.result.over, 0).panic
        THEN [s |-> s, kind |-> "panic", over |-> s.result.over,
              notices |-> NoNotices]
        ELSE [s |-> s, kind |-> "ok", over |-> s.result.over,
              notices |-> HumanNotices]

\* GameAPI::init (api.rs:90-102) for two players, each human or AI.
ApiInit ==
    /\ GameInit
    /\ called = InitCall(ApiSeats)
    /\ \E agents \in [1..ApiSeats -> {"human", "ai"}] :
        api = [pc |-> "new", agents |-> agents, game_over |-> FALSE,
               call |-> "init", returned |-> "ok", msg |-> "",
               applied |-> "none", notices |-> [q \in 1..ApiSeats |-> 0],
               noticed |-> <<>>, starts |-> [q \in 1..ApiSeats |-> 0],
               view |-> NoView]

\* The API state after do_action ended as d inside call: an error returns
\* from the call, a panic ends the program, and after an accepted action
\* process_agents runs (api.rs:138-141, 80-84).
AfterDoAction(call, d) ==
    /\ GameBecomes(d.s)
    /\ api' = [api EXCEPT
                !.pc = CASE d.kind = "ok" -> "agents"
                         [] d.kind = "err" -> "idle"
                         [] d.kind = "panic" -> "dead",
                !.game_over = d.over,
                !.call = call,
                !.returned = CASE d.kind = "ok" -> "none"
                               [] d.kind = "err" -> "err"
                               [] d.kind = "panic" -> "panic",
                !.msg = d.s.result.msg,
                !.applied = IF d.s.result.kind = "ok" THEN "accepted"
                            ELSE IF d.s.result.kind = "err" THEN "rejected"
                            ELSE "panic",
                !.notices = d.notices,
                !.noticed = IF d.kind = "ok" THEN <<d.s.curr, d.s.phase>> ELSE <<>>,
                !.view = NoView]

\* The call returns without touching the GameState.
Returns(call, returned, msg) ==
    /\ api' = [api EXCEPT !.pc = "idle", !.call = call, !.returned = returned,
                           !.msg = msg, !.applied = "none",
                           !.notices = NoNotices, !.noticed = <<>>,
                           !.view = NoView]
    /\ UNCHANGED <<players, start_player_idx, curr_player_idx, phase, dice_bag,
                   draft_pool, round_track, tools, objectives, rng, result,
                   called, log>>

\* StainedAPI::start (api.rs:114-127) up to its call of process_agents: the
\* start notice to every human seat.
Start ==
    /\ api.pc = "new"
    /\ api' = [api EXCEPT !.pc = "agents", !.call = "start",
                           !.returned = "none", !.starts = HumanNotices]
    /\ UNCHANGED <<players, start_player_idx, curr_player_idx, phase, dice_bag,
                   draft_pool, round_track, tools, objectives, rng, result,
                   called, log>>

\* The place of a draft in the order all_valid_drafts lists them: pool index
\* first, then the cell.
DraftNo(action) ==
    IF action.coords = NoCoords
    THEN action.idx
    ELSE action.idx * (BOARD_ROWS * BOARD_COLS) + CellNo(action.coords)

RECURSIVE FirstActions(_, _)
FirstActions(actions, n) ==
    IF n = 0 \/ actions = {}
    THEN {}
    ELSE LET a == CHOOSE a \in actions : \A b \in actions : DraftNo(a) <= DraftNo(b)
         IN  {a} \cup FirstActions(actions \ {a}, n - 1)

\* The outcomes of the agent's random choice that are explored: the first
\* MaxAgentPicks of the actions choose_action may return.
AgentPicks == FirstActions(choose_action, MaxAgentPicks)

\* One turn of the loop of process_agents (api.rs:75-87): the action the AI
\* of the current seat chooses is applied, or the loop ends and the call
\* that runs it returns Ok.
ProcessAgents ==
    /\ api.pc = "agents"
    /\ IF ~api.game_over /\ api.agents[curr_player_idx + 1] = "ai"
       THEN \E action \in AgentPicks :
                AfterDoAction(api.call, do_action(action))
       ELSE /\ api' = [api EXCEPT !.pc = "idle", !.returned = "ok"]
            /\ UNCHANGED <<players, start_player_idx, curr_player_idx, phase,
                           dice_bag, draft_pool, round_track, tools,
                           objectives, rng, result, called, log>>

\* The actions a client submits: the first template or one past the last;
\* the first pool die for the first cell that accepts it, for a row outside
\* the grid, or for no cell (TurnAction::pass).
ClientActions ==
    CASE phase = "SelectTemplate" ->
            {TurnAction(idx, NoCoords) : idx \in {0, Len(Me.templates)}}
      [] phase \in DraftPhases ->
            {TurnAction(0, coords) :
                coords \in (IF draft_pool # <<>>
                            THEN FirstCells(ValidCells(Me, draft_pool[1]), 1)
                            ELSE {})
                           \cup {<<BOARD_ROWS, 0>>, NoCoords}}
      [] phase = "GameOver" -> {pass}

\* StainedAPI::process_action (api.rs:129-142) up to its call of
\* process_agents, for an action string that parses.
ProcessAction ==
    /\ api.pc = "idle"
    /\ IF api.game_over
       THEN Returns("process_action", "err", "Game is over")
       ELSE \E action \in ClientActions :
                AfterDoAction("process_action", do_action(action))

\* process_action for a string serde_json does not parse as a TurnAction
\* (api.rs:137).
ProcessMalformedAction ==
    /\ api.pc = "idle"
    /\ ~api.game_over
    /\ Returns("process_action", "err", "parse error")

\* StainedAPI::final_state (api.rs:149-158)
FinalState ==
    /\ api.pc = "idle"
    /\ IF ~api.game_over
       THEN Returns("final_state", "err", "Game is not finished")
       ELSE IF player_scores.panic
       THEN /\ api' = [api EXCEPT !.pc = "dead", !.call = "final_state",
                                   !.returned = "panic", !.view = NoView]
            /\ UNCHANGED <<players, start_player_idx, curr_player_idx, phase,
                           dice_bag, draft_pool, round_track, tools,
                           objectives, rng, result, called, log>>
       ELSE Returns("final_state", "ok", "")

\* StainedAPI::player_view (api.rs:160-167) for a known player id.
PlayerView ==
    /\ api.pc = "idle"
    /\ \E player_idx \in 0..(Len(api.agents) - 1) :
        LET v == view(players, api.game_over, player_idx)
        IN  api' = [api EXCEPT
                       !.pc = IF v.panic THEN "dead" ELSE "idle",
                       !.call = "player_view",
                       !.returned = IF v.panic THEN "panic" ELSE "ok",
                       !.msg = "", !.applied = "none",
                       !.notices = NoNotices, !.noticed = <<player_idx>>,
                       !.view = v]
    /\ UNCHANGED <<players, start_player_idx, curr_player_idx, phase, dice_bag,
                   draft_pool, round_track, tools, objectives, rng, result,
                   called, log>>

ApiNext ==
    \/ Start
    \/ ProcessAgents
    \/ ProcessAction
    \/ ProcessMalformedAction
    \/ FinalState
    \/ PlayerView

ApiSpec == ApiInit /\ [][ApiNext]_vars

----------------------------------------------------------------------------
\* Properties of the API.

\* The variables of the stored GameState.
game_vars ==
    <<players, start_player_idx, curr_player_idx, phase, dice_bag, draft_pool,
      round_track, tools, objectives>>

ColorSet == {ALL_COLORS[k] : k \in 1..Len(ALL_COLORS)}

\* The players with the secrets of all seats but player_idx replaced by any
\* colours.
OtherSecrets(player_idx) ==
    {[q \in 1..Len(players) |->
        IF q - 1 = player_idx THEN players[q]
        ELSE [players[q] EXCEPT !.secret = secrets[q]]] :
            secrets \in [1..Len(players) -> ColorSet]}

\* The view of every seat is the same whatever the secrets of the others.
ViewsIgnoreOtherSecrets ==
    \A player_idx \in 0..(Len(players) - 1) :
        \A ps \in OtherSecrets(player_idx) :
            view(ps, api.game_over, player_idx)
                = view(players, api.game_over, player_idx)

\* A call of player_view leaves the GameState as it was.
ViewKeepsGame ==
    (api'.call = "player_view" /\ api' # api) => UNCHANGED game_vars

C34_FinishRoundAssertion ==
    /\ ~(result.kind = "panic"
            /\ result.msg = "assertion failed: draft_pool.len() == 1")
    /\ (phase = "GameOver" => draft_pool = <<>>)
    /\ (phase = "FirstDraft" /\ log = <<>> /\ result.kind = "ok") =>
            Len(draft_pool) = pool_size

\* What C35 asks of one step: the bag changes only when a round is started,
\* and then 2N+1 dice leave it for the draft pool.
C35_Step ==
    dice_bag' # dice_bag => Draws(2 * N + 1)

\* The dice left in the bag after a full game of num_players players.
BagAfterGame(num_players) ==
    DICE_PER_COLOR * NUM_COLORS - NUM_ROUNDS * (2 * num_players + 1)

\* What C35 asks of a state: the game init built for num_players players
\* draws 2 * num_players + 1 dice per round, start_round has not underflowed,
\* and a finished game leaves the bag with the dice ten rounds did not
\* draw, none in a game of four players.
C35_Inv ==
    /\ called.op = "init" => pool_size = 2 * called.num_players + 1
    /\ result.msg # "attempt to subtract with overflow"
    /\ phase = "GameOver" =>
            /\ BagAfterGame(N) >= 0
            /\ Len(dice_bag) = BagAfterGame(N)
            /\ (N = 4 => dice_bag = <<>>)

\* C35: the bag never runs short.  For a game of N players, N in {2,3,4},
\* start_round never finds fewer than 2N+1 dice in the bag (its subtraction
\* does not underflow), the bag shrinks by exactly 2N+1 dice per started
\* round and by nothing else, and a full game of NUM_ROUNDS rounds has drawn
\* NUM_ROUNDS * (2N+1) dice, at most 90, which empties the bag when N = 4.
C35_BagNeverRunsShort == []C35_Inv /\ [][C35_Step]_vars

\* C36: whenever the phase is FirstDraft or SecondDraft and a player is
\* awaited, the draft pool is non-empty, so that a draft of pool index 0
\* refers to an existing die, after any sequence of accepted and rejected
\* actions.
C36_PoolNonEmptyInDraft ==
    (phase \in DraftPhases /\ Alive) => draft_pool # <<>>

----------------------------------------------------------------------------
\* Tool::in_wrong_phase (turn.rs) applied to one tool in one phase.

ToolCall == [op |-> "tool", num_players |-> 0]

TurnPhases == {"SelectTemplate", "FirstDraft", "SecondDraft", "GameOver"}

\* A tool of any of the twelve types of ToolType (tool.rs:9-26), at any cost
\* up to MaxToolCost, and any phase; no game is in progress.
ToolInit ==
    /\ \E k \in 1..Len(ALL_TOOL_TYPES), cost \in 1..MaxToolCost :
        tools = <<[tool_type |-> ALL_TOOL_TYPES[k], cost |-> cost]>>
    /\ phase \in TurnPhases
    /\ players = <<>>
    /\ start_player_idx = 0
    /\ curr_player_idx = 0
    /\ dice_bag = <<>>
    /\ draft_pool = <<>>
    /\ round_track = <<>>
    /\ objectives = <<>>
    /\ rng = 1
    /\ result = NoResult
    /\ called = ToolCall
    /\ log = <<>>
    /\ api = NoApi

\* tool.in_wrong_phase(phase)
InWrongPhase ==
    /\ result = NoResult
    /\ result' = [kind |-> "in_wrong_phase", over |-> FALSE, msg |-> "",
                  value |-> in_wrong_phase(tools[1], phase)]
    /\ UNCHANGED <<players, start_player_idx, curr_player_idx, phase, dice_bag,
                   draft_pool, round_track, tools, objectives, rng, called, log,
                   api>>

ToolNext == InWrongPhase

ToolSpec == ToolInit /\ [][ToolNext]_vars

\* C37: in_wrong_phase is true exactly for any tool in SelectTemplate, any
\* tool in GameOver, RerollAllDiceInPool in FirstDraft and DraftTwoDice in
\* SecondDraft, and false for every other pair of phase and tool type.
C37_InWrongPhase ==
    result.kind = "in_wrong_phase" =>
        (result.value <=>
            \/ phase \in {"SelectTemplate", "GameOver"}
            \/ <<phase, tools[1].tool_type>>
                    \in {<<"FirstDraft", "RerollAllDiceInPool">>,
                         <<"SecondDraft", "DraftTwoDice">>})

\* RerollAllDiceInPool was found usable in SecondDraft.
C37_Witness ==
    /\ result.kind = "in_wrong_phase"
    /\ phase = "SecondDraft"
    /\ tools[1].tool_type = "RerollAllDiceInPool"
    /\ ~result.value

\* Every seat is played by an agent.
AllAI == \A q \in 1..Len(api.agents) : api.agents[q] = "ai"

\* start or process_action has returned Ok.
ReturnedOk ==
    /\ api.pc = "idle"
    /\ api.call \in {"start", "process_action"}
    /\ api.returned = "ok"

\* C38: whenever start or process_action returns Ok, the game is over or
\* the current player is a human seat.  With every seat an AI, start plays
\* the whole game: it returns Ok with is_game_over() true, after which
\* final_state succeeds and process_action fails with "Game is over".
C38_AgentsPlayUntilHuman ==
    /\ ReturnedOk =>
            \/ api.game_over
            \/ api.agents[curr_player_idx + 1] = "human"
    /\ AllAI =>
            /\ api.pc # "dead"
            /\ (api.pc = "idle" /\ api.call = "start") =>
                    api.returned = "ok" /\ api.game_over
            /\ (api.pc = "idle" /\ api.call = "final_state") =>
                    api.returned = "ok"
            /\ (api.pc = "idle" /\ api.call = "process_action") =>
                    api.returned = "err" /\ api.msg = "Game is over"

\* C39: every action applied through the API that take_turn accepts sends
\* exactly one state notice to each human seat and none to an AI seat, and
\* the notice shows the GameState after the action; an action take_turn
\* rejects sends no notice.  With two human seats an accepted SelectTemplate
\* action so yields 2 notices.
C39_NoticePerHumanSeat ==
    /\ api.applied = "accepted" =>
            /\ api.notices = HumanNotices
            /\ api.noticed = <<curr_player_idx, phase>>
    /\ api.applied = "rejected" => api.notices = NoNotices

\* C40: the winner_id of a view is absent while the game is not over; once
\* it is over it names a seat whose score is the maximum of player_scores(),
\* the lowest-indexed such seat on a tie.
C40_ViewWinner ==
    \A player_idx \in 0..(Len(players) - 1) :
        LET v == view(players, api.game_over, player_idx)
        IN  /\ ~v.panic
            /\ IF ~api.game_over
               THEN v.winner_id = NoWinner
               ELSE /\ ~player_scores.panic
                    /\ v.winner_id \in 0..(Len(players) - 1)
                    /\ \A q \in 1..Len(players) :
                        /\ player_scores.scores[q]
                            <= player_scores.scores[v.winner_id + 1]
                        /\ (player_scores.scores[q]
                                = player_scores.scores[v.winner_id + 1])
                            => v.winner_id + 1 <= q
====
